---- MODULE Spec2Model ----
(***************************************************************************)
(* rust_cdn (src/src/main.rs): a write-through file store behind an HTTP   *)
(* router.  Writes go to ./store on disk and then into an in-memory        *)
(* HashMap guarded by one std::sync::Mutex; reads are served from the map. *)
(*                                                                         *)
(* Text (names, contents, URI paths) is a sequence of one-character        *)
(* strings, so that splitting and path handling are computed, not assumed. *)
(* Option<T> is <<>> for None and <<v>> for Some(v).                       *)
(***************************************************************************)
EXTENDS Integers, Sequences, FiniteSets, TLC

\* ------------------------------------------------------------------ bounds
\* Number of connection tasks serving requests concurrently.
NumTasks == 2
\* Number of requests accepted in one run of the server.
MaxRequests == 3

\* The thread running main()/init_store(); connection tasks are 1..NumTasks.
MainThread == 0
Tasks == 1..NumTasks

None == <<>>
Some(v) == <<v>>

\* ------------------------------------------------------------------ text
Slash == "/"
DotSeg == <<".">>
DotDotSeg == <<".", ".">>

\* str::split("/") of response_handler: the pieces between separators,
\* empty pieces included ("" splits into one empty piece).
RECURSIVE SplitAcc(_, _, _)
SplitAcc(s, cur, acc) ==
    IF s = <<>> THEN Append(acc, cur)
    ELSE IF Head(s) = Slash THEN SplitAcc(Tail(s), <<>>, Append(acc, cur))
    ELSE SplitAcc(Tail(s), Append(cur, Head(s)), acc)

Split(s) == SplitAcc(s, <<>>, <<>>)

NonEmpty(e) == e # <<>>

\* req.uri().path().split("/").filter(|e| !e.is_empty()).collect()
PathSegments(uriPath) == SelectSeq(Split(uriPath), NonEmpty)

\* The rightmost piece of a text split at "/" (no component rules applied).
LastPiece(s) == Split(s)[Len(Split(s))]

\* std::path::Path::components, as far as file_name needs them: empty pieces
\* and "." pieces are not components.
IsComponent(e) == e # <<>> /\ e # DotSeg

Components(p) == SelectSeq(Split(p), IsComponent)

\* std::path::Path::file_name: the last component if it is a normal one;
\* None when the path ends in ".." or has no component.
FileName(p) ==
    LET comps == Components(p)
    IN  IF comps = <<>> THEN None
        ELSE IF comps[Len(comps)] = DotDotSeg THEN None
        ELSE Some(comps[Len(comps)])

\* "anti path traversal" of download: file_name becomes the base name when
\* the path has one and is left as it is otherwise.
Sanitize(fileName) ==
    IF FileName(fileName) # None THEN FileName(fileName)[1] ELSE fileName

\* ------------------------------------------------------------------ disk
\* A location is a sequence of directory entries below the working
\* directory (<<>>); RootSeg first marks an absolute path and DotDotSeg a
\* step above the working directory.
StoreSeg == <<"s", "t", "o", "r", "e">>
RootSeg == <<"/">>
StoreDir == <<StoreSeg>>

\* A directory entry: a subdirectory or a regular file with its bytes (data;
\* text says whether they are valid UTF-8), whether it can be read, whether
\* its metadata can be read and whether its name is valid UTF-8.
Entry(kind, data, text, readable, statOk, nameOk) ==
    [kind |-> kind, data |-> data, text |-> text, readable |-> readable,
     statOk |-> statOk, nameOk |-> nameOk]

DirEntry == Entry("dir", <<>>, TRUE, TRUE, TRUE, TRUE)
TextFile(c) == Entry("file", c, TRUE, TRUE, TRUE, TRUE)

AllDotDot(p) == \A i \in 1..Len(p) : p[i] = DotDotSeg

IsDir(d, p) ==
    \/ p = <<>>
    \/ p = <<RootSeg>>
    \/ AllDotDot(p)
    \/ p \in DOMAIN d /\ d[p].kind = "dir"

Parent(p) == IF p = <<>> \/ p[Len(p)] = DotDotSeg THEN Append(p, DotDotSeg)
             ELSE SubSeq(p, 1, Len(p) - 1)

\* Resolution of the pieces of a path by the file system, from directory
\* cur: None when a directory on the way does not exist or when the path
\* names a directory, else Some(location of the file to open).
RECURSIVE Walk(_, _, _)
Walk(d, pieces, cur) ==
    IF pieces = <<>> THEN None
    ELSE LET e == Head(pieces)
             rest == Tail(pieces)
         IN  IF e = <<>> \/ e = DotSeg THEN Walk(d, rest, cur)
             ELSE IF e = DotDotSeg THEN Walk(d, rest, Parent(cur))
             ELSE IF rest = <<>>
                  THEN IF IsDir(d, Append(cur, e)) THEN None ELSE Some(Append(cur, e))
                  ELSE IF IsDir(d, Append(cur, e)) THEN Walk(d, rest, Append(cur, e))
                  ELSE None

\* Path::new(".").join("store").join(&filename): an absolute filename
\* replaces the path, any other is appended to ./store unchanged.
WritePath(d, filename) ==
    IF filename # <<>> /\ Head(filename) = Slash
    THEN Walk(d, Split(filename), <<RootSeg>>)
    ELSE Walk(d, Split(filename), StoreDir)

StrictPrefixes(c) == {SubSeq(c, 1, n) : n \in 0..(Len(c) - 1)}

PutFile(d, p, c) ==
    [q \in DOMAIN d \cup {p} |->
        IF q = p
        THEN IF p \in DOMAIN d THEN [d[p] EXCEPT !.data = c, !.text = TRUE]
             ELSE TextFile(c)
        ELSE d[q]]

\* As FsWrite, with the file opened for appending instead of truncated.
FsWriteAppend(d, target, c) ==
    IF target = None THEN {[ok |-> FALSE, disk |-> d]}
    ELSE {[ok |-> TRUE,
           disk |-> PutFile(d, target[1],
                            IF target[1] \in DOMAIN d THEN d[target[1]].data \o c ELSE c)],
          [ok |-> FALSE, disk |-> d]}

\* std::fs::write(path, contents) = File::create(path)?.write_all(contents):
\* every outcome the call can have.  It fails before touching the disk (the
\* path does not resolve, permissions), or succeeds, or fails in write_all
\* after create has truncated the file, leaving a strict prefix behind.
FsWrite(d, target, c) ==
    IF target = None THEN {[ok |-> FALSE, disk |-> d]}
    ELSE {[ok |-> TRUE, disk |-> PutFile(d, target[1], c)],
          [ok |-> FALSE, disk |-> d]}
         \cup {[ok |-> FALSE, disk |-> PutFile(d, target[1], pre)] : pre \in StrictPrefixes(c)}

\* ------------------------------------------------------------------ HTTP
FileSeg == <<"f", "i", "l", "e">>
FilesSeg == <<"f", "i", "l", "e", "s">>

\* The URI path "/file/<name>" a client requests to download <name>.
DownloadPath(name) == <<Slash>> \o FileSeg \o <<Slash>> \o name

NoParams == [k \in {} |-> <<>>]

Request(method, path, params) == [method |-> method, path |-> path, params |-> params]

\* What a handler returns: Ok(Response) with a JSON envelope or a raw body,
\* Err(e), or a panic of the task ("None": nothing returned yet).
Result(kind, status, json, msg, arg, files, body) ==
    [kind |-> kind, status |-> status, json |-> json, msg |-> msg, arg |-> arg,
     files |-> files, body |-> body]

NoResult == Result("None", 0, FALSE, "", <<>>, None, <<>>)
IoError == Result("Err", 0, FALSE, "", <<>>, None, <<>>)
Panicked == Result("Panic", 0, FALSE, "", <<>>, None, <<>>)

\* response(code, msg): status code and the envelope { msg: msg }; arg is
\* the text formatted into the message, if any.
Response(code, msg, arg) == Result("Ok", code, TRUE, msg, arg, None, <<>>)

\* File { name, content }
File(name, content) == [name |-> name, content |-> content]

\* ------------------------------------------------------------------ inputs
NameX == <<"x">>
NameDotX == <<".", "/", "x">>
NameUpX == <<".", ".", "/", "x">>
\* Names uploaded, and names asked for in downloads.
Names == {NameX, FileSeg, NameDotX, NameUpX}

Contents == {<<>>, <<"v">>}

UploadRequests ==
    {Request("POST", <<Slash>> \o FileSeg, [name |-> n, content |-> c]) :
        n \in Names, c \in Contents}
    \cup {Request("POST", <<Slash>> \o FileSeg, [name |-> NameX]),
          Request("POST", <<Slash>> \o FileSeg, [content |-> <<"v">>])}

DownloadRequests ==
    {Request("GET", DownloadPath(n), NoParams) : n \in Names}
    \cup {Request("GET", <<Slash>> \o FileSeg, NoParams)}

OtherRequests ==
    {Request("GET", <<Slash>> \o FilesSeg, NoParams),
     Request("POST", <<Slash>> \o FilesSeg, NoParams),
     Request("GET", <<Slash, "x">>, NoParams),
     Request("GET", <<Slash>>, NoParams)}

Requests == UploadRequests \cup DownloadRequests \cup OtherRequests

\* The store directory as main() finds it: ./store exists (create_dir_all)
\* and holds the entries of files.
MkDisk(files) ==
    [p \in {StoreDir} \cup {<<StoreSeg, n>> : n \in DOMAIN files} |->
        IF p = StoreDir THEN DirEntry ELSE files[p[2]]]

EmptyStore == MkDisk([n \in {} |-> DirEntry])

MixedStore ==
    MkDisk((NameX :> TextFile(<<"u">>))
           @@ (<<"b">> :> Entry("file", <<"#">>, FALSE, TRUE, TRUE, TRUE))
           @@ (<<"d">> :> DirEntry)
           @@ (<<"z">> :> Entry("file", <<"u">>, TRUE, FALSE, TRUE, TRUE)))

BrokenStore ==
    MkDisk((NameX :> TextFile(<<"u">>))
           @@ (<<"m">> :> Entry("file", <<"u">>, TRUE, TRUE, FALSE, TRUE))
           @@ (<<"n">> :> Entry("file", <<"u">>, TRUE, TRUE, TRUE, FALSE)))

InitDisks == {EmptyStore, MixedStore, BrokenStore}

\* ------------------------------------------------------------------ state
VARIABLES
    mainpc,     \* where main() is: "start", "scan", "count", "serve", "panicked"
    todo,       \* init_store: directory entries the scan has still to visit
    store,      \* the FileStore: HashMap<String, File>
    disk,       \* the file system: location -> entry
    lock,       \* the holder of the store's Mutex ({} when free)
    pc,         \* per task: its place in the handler
    req,        \* per task: the request being served
    key,        \* per task: download's local file_name
    sent,       \* the request served last (method, path) and what response_handler
                \* returned for it, as main's service_fn sees and logs them
    accepted,   \* number of requests accepted so far
    lastPut,    \* history: name -> content of its latest upload answered 201
    loaded      \* history: names the startup scan put into the store

vars == <<mainpc, todo, store, disk, lock, pc, req, key, sent, accepted, lastPut, loaded>>

NoRequest == Request("", <<>>, NoParams)

EmptyMap == [k \in {} |-> File(<<>>, None)]

\* HashMap::insert(k, v)
Insert(m, k, v) == [q \in DOMAIN m \cup {k} |-> IF q = k THEN v ELSE m[q]]

Init ==
    /\ mainpc = "start"
    /\ todo = {}
    /\ store = EmptyMap
    /\ disk \in InitDisks
    /\ lock = {}
    /\ pc = [t \in Tasks |-> "idle"]
    /\ req = [t \in Tasks |-> NoRequest]
    /\ key = [t \in Tasks |-> <<>>]
    /\ sent = [method |-> "", path |-> <<>>, res |-> NoResult]
    /\ accepted = 0
    /\ lastPut = [k \in {} |-> <<>>]
    /\ loaded = {}

\* ------------------------------------------------------------------ init_store
\* let mut lock = store.lock().unwrap(); std::fs::read_dir("./store")
InitStoreLock ==
    /\ mainpc = "start"
    /\ lock = {}
    /\ lock' = {MainThread}
    /\ todo' = {p \in DOMAIN disk : Len(p) = 2 /\ p[1] = StoreSeg}
    /\ mainpc' = "scan"
    /\ UNCHANGED <<store, disk, pc, req, key, sent, accepted, lastPut, loaded>>

\* As LoadFile, the record being made as a listing makes it: the name only.
LoadFileNameOnly(p, e) ==
    IF ~e.readable THEN None
    ELSE Some(File(p[2], None))

\* The flat_map closure: None when std::fs::read fails, else the File, whose
\* content is None when the bytes are not UTF-8.
LoadFile(p, e) ==
    IF ~e.readable THEN None
    ELSE Some(File(p[2], IF e.text THEN Some(e.data) ELSE None))

\* One directory entry through filter, flat_map and for_each.
ScanEntry ==
    /\ mainpc = "scan"
    /\ \E p \in todo :
        LET e == disk[p]
        IN  /\ todo' = todo \ {p}
            /\ IF ~e.statOk \/ (e.kind # "dir" /\ ~e.nameOk)
               THEN \* metadata().unwrap() or to_str().unwrap() panics: the
                    \* unwinding drops the closure and with it the guard
                    /\ mainpc' = "panicked"
                    /\ lock' = lock \ {MainThread}
                    /\ UNCHANGED <<store, loaded>>
               ELSE IF e.kind = "dir" \/ LoadFile(p, e) = None
               THEN UNCHANGED <<mainpc, store, loaded, lock>>
               ELSE /\ store' = Insert(store, p[2], LoadFile(p, e)[1])
                    /\ loaded' = loaded \cup {p[2]}
                    /\ UNCHANGED <<mainpc, lock>>
    /\ UNCHANGED <<disk, pc, req, key, sent, accepted, lastPut>>

\* for_each returns: its closure, which owns the guard, is dropped.
ScanEnd ==
    /\ mainpc = "scan"
    /\ todo = {}
    /\ lock' = lock \ {MainThread}
    /\ mainpc' = "count"
    /\ UNCHANGED <<todo, store, disk, pc, req, key, sent, accepted, lastPut, loaded>>

\* println!(.., store.lock().unwrap().len()); Ok(store): the server loop starts.
InitStoreCount ==
    /\ mainpc = "count"
    /\ lock = {}
    /\ mainpc' = "serve"
    /\ UNCHANGED <<todo, store, disk, lock, pc, req, key, sent, accepted, lastPut, loaded>>

\* ------------------------------------------------------------------ response_handler
\* match (req.method(), path[0]): the handler a request is dispatched to.
\* path[0] of a path without segments is out of bounds: the task panics.
Route(r) ==
    LET path == PathSegments(r.path)
    IN  IF path = <<>> THEN "panic"
        ELSE IF r.method = "GET" /\ path[1] = FilesSeg THEN "all"
        ELSE IF r.method = "POST" /\ path[1] = FileSeg THEN "upload"
        ELSE IF r.method = "GET" /\ path[1] = FileSeg
             THEN IF Len(path) < 2 THEN "nopath" ELSE "download"
        ELSE "notfound"

\* As HasFields, taking an empty content for a missing one.
HasFieldsNonEmpty(r) ==
    /\ "name" \in DOMAIN r.params
    /\ "content" \in DOMAIN r.params
    /\ r.params.content # <<>>

\* params.contains_key("name") && params.contains_key("content")
HasFields(r) == "name" \in DOMAIN r.params /\ "content" \in DOMAIN r.params

\* let file = File { name, content: Some(content) }
UploadFile(r) == File(r.params.name, Some(r.params.content))

\* download's file_name at the lookup: the path segment, sanitized.
DownloadKey(fileName) == Sanitize(fileName)

\* The handler of task t returns x for request r: main's service_fn logs it
\* and the connection task waits for its next request.
Return(t, r, x) ==
    /\ sent' = [method |-> r.method, path |-> r.path, res |-> x]
    /\ pc' = [pc EXCEPT ![t] = "idle"]
    /\ req' = [req EXCEPT ![t] = NoRequest]
    /\ key' = [key EXCEPT ![t] = <<>>]

\* The handler of task t moves on to place at, with local file_name k.
Goto(t, r, at, k) ==
    /\ pc' = [pc EXCEPT ![t] = at]
    /\ req' = [req EXCEPT ![t] = r]
    /\ key' = [key EXCEPT ![t] = k]
    /\ UNCHANGED sent

\* The handler returns x before any lock().
Returns(x) == [at |-> "idle", res |-> x, key |-> <<>>]

\* The handler has reached the lock() at the place at, download with its
\* local file_name k.
Reaches(at, k) == [at |-> at, res |-> NoResult, key |-> k]

\* What response_handler and the function it calls do with request r up to
\* the first lock(): routing, upload's form check, download's "file" check
\* and sanitization.
Handle(r) ==
    LET path == PathSegments(r.path)
        to == Route(r)
    IN  CASE to = "panic" -> Returns(Panicked)
          [] to = "all" -> Reaches("all_lock", <<>>)
          [] to = "upload" ->
                IF ~HasFields(r)
                THEN Returns(Response(400, "Missing name or content in request body", <<>>))
                ELSE Reaches("upload_lock", <<>>)
          [] to = "nopath" -> Returns(Response(404, "No file path", <<>>))
          [] to = "download" ->
                IF path[2] = FileSeg
                THEN Returns(Response(400, "No file path given", <<>>))
                ELSE Reaches("download_lock", DownloadKey(path[2]))
          [] OTHER -> Returns(Response(404, "Not Found", <<>>))

\* A request out of rs arrives on a connection and runs up to its first
\* lock() or to its return.
Serve(t, rs) ==
    /\ mainpc = "serve"
    /\ pc[t] = "idle"
    /\ accepted < MaxRequests
    /\ accepted' = accepted + 1
    /\ \E r \in rs :
        LET h == Handle(r)
        IN  IF h.at = "idle"
            THEN Return(t, r, h.res)
            ELSE Goto(t, r, h.at, h.key)
    /\ UNCHANGED <<mainpc, todo, store, disk, lock, lastPut, loaded>>

ResponseHandler(t) == Serve(t, Requests)

\* ------------------------------------------------------------------ upload
\* As UploadLock, the disk write being left outside the lock: the handler
\* goes on to its write without waiting for, or taking, the mutex.
UploadLockSkip(t) ==
    /\ pc[t] = "upload_lock"
    /\ pc' = [pc EXCEPT ![t] = "upload_write"]
    /\ UNCHANGED <<mainpc, todo, store, disk, lock, req, key, sent, accepted, lastPut, loaded>>

\* let mut lock = db_handle.lock().unwrap();
UploadLock(t) ==
    /\ pc[t] = "upload_lock"
    /\ lock = {}
    /\ lock' = {t}
    /\ pc' = [pc EXCEPT ![t] = "upload_write"]
    /\ UNCHANGED <<mainpc, todo, store, disk, req, key, sent, accepted, lastPut, loaded>>

\* As AfterWrite, with the error of the write ignored.
AfterWriteIgnoreError(ok) == "upload_insert"

\* std::fs::write(..)?: on Err the handler returns it, else it goes on.
AfterWrite(ok) == IF ok THEN "upload_insert" ELSE "done"

\* As UploadWrite, the guard being kept when the write fails.
UploadWriteKeepLock(t) ==
    /\ pc[t] = "upload_write"
    /\ \E out \in FsWrite(disk, WritePath(disk, UploadFile(req[t]).name),
                           UploadFile(req[t]).content[1]) :
        /\ disk' = out.disk
        /\ IF AfterWrite(out.ok) = "done"
           THEN Return(t, req[t], IoError)
           ELSE Goto(t, req[t], AfterWrite(out.ok), <<>>)
    /\ UNCHANGED <<mainpc, todo, store, lock, accepted, lastPut, loaded>>

\* std::fs::write(Path::new(".").join("store").join(&filename), content)?
UploadWrite(t) ==
    /\ pc[t] = "upload_write"
    /\ \E out \in FsWrite(disk, WritePath(disk, UploadFile(req[t]).name),
                           UploadFile(req[t]).content[1]) :
        /\ disk' = out.disk
        /\ IF AfterWrite(out.ok) = "done"
           THEN /\ Return(t, req[t], IoError)
                /\ lock' = lock \ {t}
           ELSE /\ Goto(t, req[t], AfterWrite(out.ok), <<>>)
                /\ UNCHANGED lock
    /\ UNCHANGED <<mainpc, todo, store, accepted, lastPut, loaded>>

\* let filename = file.name.clone(): the key of the insert.
StoreKey(file) == file.name

\* lock.insert(filename, file); response(StatusCode::CREATED, "Stored file
\* '<name>'"); the guard is dropped on return.
UploadInsert(t) ==
    /\ pc[t] = "upload_insert"
    /\ store' = Insert(store, StoreKey(UploadFile(req[t])), UploadFile(req[t]))
    /\ Return(t, req[t], Response(201, "Stored file", req[t].params.name))
    /\ lock' = lock \ {t}
    /\ lastPut' = Insert(lastPut, req[t].params.name, req[t].params.content)
    /\ UNCHANGED <<mainpc, todo, disk, accepted, loaded>>

\* ------------------------------------------------------------------ download
\* file.content.clone().unwrap_or_default()
ContentOrDefault(file) == IF file.content = None THEN <<>> ELSE file.content[1]

\* lock.get(file_name): 200 with the raw content, or 404.
Lookup(m, k) ==
    IF k \in DOMAIN m
    THEN Result("Ok", 200, FALSE, "", <<>>, None, ContentOrDefault(m[k]))
    ELSE Response(404, "File not found in store", k)

\* As Download, the record being taken out of the map (remove for get).
DownloadTake(t) ==
    /\ pc[t] = "download_lock"
    /\ lock = {}
    /\ Return(t, req[t], Lookup(store, key[t]))
    /\ store' = [k \in DOMAIN store \ {key[t]} |-> store[k]]
    /\ UNCHANGED <<mainpc, todo, disk, lock, accepted, lastPut, loaded>>

\* let lock = db_handle.lock().unwrap(); the lookup; the guard is dropped on
\* return.  The critical section does nothing but read the map: one step.
Download(t) ==
    /\ pc[t] = "download_lock"
    /\ lock = {}
    /\ Return(t, req[t], Lookup(store, key[t]))
    /\ UNCHANGED <<mainpc, todo, store, disk, lock, accepted, lastPut, loaded>>

\* ------------------------------------------------------------------ all
\* As Listing, leaving out the records that have no content.
ListingWithContent(m) == {File(k, None) : k \in {q \in DOMAIN m : m[q].content # None}}

\* handle.keys().map(|key| File { name: key, content: None }).collect()
Listing(m) == {File(k, None) : k \in DOMAIN m}

\* let handle = db.lock().unwrap(); 200 with { msg: "Got no files" | "Got N
\* files", files }; the guard is dropped on return.  One step, as Download.
All(t) ==
    /\ pc[t] = "all_lock"
    /\ lock = {}
    /\ Return(t, req[t],
            Result("Ok", 200, TRUE,
                   IF Cardinality(Listing(store)) = 0 THEN "Got no files" ELSE "Got N files",
                   <<>>, Some(Listing(store)), <<>>))
    /\ UNCHANGED <<mainpc, todo, store, disk, lock, accepted, lastPut, loaded>>

\* ------------------------------------------------------------------ main
\* What the client receives for a handler result: service_fn hands an Ok
\* response to the connection; an Err (or a panic) ends serve_connection
\* with an error and no response is written.
ClientSees(r) == IF r.kind = "Ok" THEN Some(r) ELSE None

Next ==
    \/ InitStoreLock
    \/ ScanEntry
    \/ ScanEnd
    \/ InitStoreCount
    \/ \E t \in Tasks :
        \/ ResponseHandler(t)
        \/ UploadLock(t)
        \/ UploadWrite(t)
        \/ UploadInsert(t)
        \/ Download(t)
        \/ All(t)

\* The process is stopped between two requests and started again: main runs
\* anew, with a new empty map and a free mutex; of all the state only the
\* disk is kept (and what the clients have seen).
Restart ==
    /\ mainpc = "serve"
    /\ \A t \in Tasks : pc[t] = "idle"
    /\ mainpc' = "start"
    /\ todo' = {}
    /\ store' = EmptyMap
    /\ lock' = {}
    /\ loaded' = {}
    /\ UNCHANGED <<disk, pc, req, key, sent, accepted, lastPut>>

Spec == Init /\ [][Next]_vars

\* The server with restarts of its process.
SpecRestart == Init /\ [][Next \/ Restart]_vars

\* The requests that take the mutex, one of each kind: an upload, a
\* download and a listing.
LockRequests ==
    {Request("POST", <<Slash>> \o FileSeg, [name |-> NameX, content |-> <<"v">>]),
     Request("GET", DownloadPath(NameX), NoParams),
     Request("GET", <<Slash>> \o FilesSeg, NoParams)}

\* A request that takes the mutex arrives.
LockingHandler(t) == Serve(t, LockRequests)

\* A step of the handler of task t after its start.
HandlerStep(t) ==
    \/ UploadLock(t)
    \/ UploadWrite(t)
    \/ UploadInsert(t)
    \/ Download(t)
    \/ All(t)

\* A step of the main thread in init_store.
MainStep ==
    \/ InitStoreLock
    \/ ScanEntry
    \/ ScanEnd
    \/ InitStoreCount

\* The server under requests that take the mutex.
LockNext ==
    \/ MainStep
    \/ \E t \in Tasks :
        \/ LockingHandler(t)
        \/ HandlerStep(t)

\* The main thread runs init_store without waiting for anything but the
\* mutex, and the tokio runtime keeps polling every spawned task: a step of
\* the main thread, or of a handler that has started, is taken if it stays
\* possible.  Nothing obliges a client to send a request.
FairSpec ==
    /\ Init
    /\ [][LockNext]_vars
    /\ WF_vars(MainStep)
    /\ \A t \in Tasks : WF_vars(HandlerStep(t))

\* ------------------------------------------------------------------ properties
Range(s) == {s[i] : i \in 1..Len(s)}

\* A step in which a handler returns (at once, or from a later place).
Responds ==
    \/ accepted' = accepted + 1 /\ pc' = pc
    \/ \E t \in Tasks : pc[t] # "idle" /\ pc'[t] = "idle"

\* 200 with the raw body c.
OkBody(c) == Result("Ok", 200, FALSE, "", <<>>, None, c)

\* The name a download path "/file/<name>" asks for.
NameOf(path) == SubSeq(path, Len(DownloadPath(<<>>)) + 1, Len(path))

\* The file of the storage directory that the mapping key k stands for, if
\* any: the location ./store/<k> resolves to, when directly inside ./store.
StoreFileOf(d, k) ==
    LET p == WritePath(d, k)
    IN  IF p # None /\ Len(p[1]) = 2 /\ p[1][1] = StoreSeg /\ p[1] \in DOMAIN d
        THEN Some(d[p[1]])
        ELSE None

\* Every mapping entry that has a content has a file in ./store with that
\* content.
Consistent ==
    \A k \in DOMAIN store :
        store[k].content # None =>
            /\ StoreFileOf(disk, k) # None
            /\ StoreFileOf(disk, k)[1].kind = "file"
            /\ StoreFileOf(disk, k)[1].text
            /\ StoreFileOf(disk, k)[1].data = store[k].content[1]

\* Task t leaves std::fs::write without the content being on disk.
WriteFailedStep(t) ==
    /\ pc[t] = "upload_write"
    /\ pc'[t] # "upload_write"
    /\ LET p == WritePath(disk, req[t].params.name)
       IN  \/ p = None
           \/ p[1] \notin DOMAIN disk'
           \/ disk'[p[1]].data # req[t].params.content

\* C1: last-write-wins.  Whenever a download GET /file/<n> is answered and
\* an upload of n was answered 201 before, the answer is 200 with the content
\* of the latest such upload.
C1_LastWriteWins ==
    [][Responds =>
        \A n \in DOMAIN lastPut :
            (sent'.method = "GET" /\ sent'.path = DownloadPath(n))
                => sent'.res = OkBody(lastPut[n])]_vars

\* C2: round trip.  When the answer sent last is the 201 of an upload of
\* (n, c) and the next answer is that of GET /file/<n>, it is 200 with
\* body c.
C2_RoundTrip ==
    [][\A n \in Names :
        (/\ Responds
         /\ sent.method = "POST"
         /\ sent.res = Response(201, "Stored file", n)
         /\ sent'.method = "GET"
         /\ sent'.path = DownloadPath(n))
            => (n \in DOMAIN lastPut /\ sent'.res = OkBody(lastPut[n]))]_vars

\* C3: write-through invariant.  Whenever no task is inside the critical
\* section, every mapping entry has a file of its name in the storage
\* directory with identical content.
C3_WriteThrough == lock = {} => Consistent

\* C4: a failed disk write propagates the error and leaves the mapping as
\* it was: the step returns Err and the handler is over, store unchanged.
C4_FailedWriteKeepsMapping ==
    [][\A t \in Tasks :
        WriteFailedStep(t) =>
            /\ store' = store
            /\ sent'.res = IoError
            /\ pc'[t] = "idle"]_vars

\* A put of x failed after truncating the file while the mapping still
\* holds the entry loaded for x.
C4_Witness ==
    /\ sent.res = IoError
    /\ NameX \in DOMAIN store
    /\ store[NameX].content = Some(<<"u">>)
    /\ disk[<<StoreSeg, NameX>>].data # <<"u">>

\* C5: a failed upload introduces no inconsistency.  If disk and mapping
\* agree on every entry before a disk write fails, they agree after it.
C5_FailedUploadConsistent ==
    [][\A t \in Tasks : (WriteFailedStep(t) /\ Consistent) => Consistent']_vars

\* C6: when the disk write of an upload fails, the client receives a
\* response with a 5xx status and a msg.
C6_WriteFailureAnswered ==
    [][\A t \in Tasks :
        WriteFailedStep(t) =>
            /\ ClientSees(sent'.res) # None
            /\ ClientSees(sent'.res)[1].status \in 500..599
            /\ ClientSees(sent'.res)[1].json
            /\ ClientSees(sent'.res)[1].msg # ""]_vars

\* C7: the key a download looks up is the final path component of the
\* requested name and holds no separator and is not "..".
C7_LookupKeyIsLeaf ==
    \A t \in Tasks :
        pc[t] = "download_lock" =>
            /\ key[t] = LastPiece(NameOf(req[t].path))
            /\ Slash \notin Range(key[t])
            /\ key[t] # DotDotSeg

\* C8: once the disk write of an upload has succeeded, the file written is
\* ./store/<base name of the uploaded name>, directly inside the storage
\* directory, and the mapping key equals that file name.
C8_UploadStaysInStore ==
    \A t \in Tasks :
        pc[t] = "upload_insert" =>
            LET p == WritePath(disk, req[t].params.name)
            IN  /\ p # None
                /\ Len(p[1]) = 2
                /\ p[1][1] = StoreSeg
                /\ p[1][2] = Sanitize(req[t].params.name)
                /\ StoreKey(UploadFile(req[t])) = p[1][2]

\* C9: every listing that is answered holds as many files as there are
\* distinct names loaded at startup or uploaded with a 201 so far.
C9_ListingCount ==
    [][(Responds /\ sent'.res.files # None) =>
        Cardinality(sent'.res.files[1]) = Cardinality(loaded \cup DOMAIN lastPut)]_vars

\* A listing was answered that holds a name loaded at startup and a name
\* uploaded since.
C9_Witness ==
    /\ sent.res.files # None
    /\ \E n \in DOMAIN lastPut \ loaded : File(n, None) \in sent.res.files[1]
    /\ \E m \in loaded : File(m, None) \in sent.res.files[1]

\* Task t uploads (name, content) and the state is as a 201 upload of the
\* same pair left it: the pair is the latest upload of the name, the
\* mapping holds it and so does the file.
ReUpload(t) ==
    LET n == req[t].params.name
        p == WritePath(disk, n)
    IN  /\ pc[t] \in {"upload_write", "upload_insert"}
        /\ n \in DOMAIN lastPut
        /\ lastPut[n] = req[t].params.content
        /\ n \in DOMAIN store
        /\ store[n] = UploadFile(req[t])
        /\ p # None
        /\ p[1] \in DOMAIN disk
        /\ disk[p[1]].data = req[t].params.content
        /\ disk[p[1]].text

\* C10: idempotence.  The steps of a 201 upload of a pair that was uploaded
\* before, and is still what mapping and disk hold, change neither the
\* mapping (listing count, get) nor the disk.
C10_ReuploadIdempotent ==
    [][\A t \in Tasks :
        (/\ ReUpload(t)
         /\ \/ pc[t] = "upload_write" /\ pc'[t] = "upload_insert"
            \/ pc[t] = "upload_insert" /\ pc'[t] = "idle")
            => /\ store' = store
               /\ disk' = disk
               /\ Cardinality(Listing(store')) = Cardinality(Listing(store))
               /\ \A k \in Names : Lookup(store', k) = Lookup(store, k)]_vars

\* A second upload of the same pair has written the disk and is about to
\* insert.
C10_Witness == \E t \in Tasks : pc[t] = "upload_insert" /\ ReUpload(t)

\* The routes of response_handler's match: GET /files, POST /file and
\* GET /file with or without a name.
Matched(method, path) ==
    LET segs == PathSegments(path)
    IN  /\ Len(segs) > 0
        /\ \/ method = "GET" /\ segs[1] = FilesSeg
           \/ method = "POST" /\ segs[1] = FileSeg
           \/ method = "GET" /\ segs[1] = FileSeg

\* Some request has been handled (sent holds the latest one).
Handled == sent.method # ""

\* C11: every request that matches none of the routes, the root path "/"
\* included, is answered 404 with the message "Not Found".
C11_UnmatchedIsNotFound ==
    (Handled /\ ~Matched(sent.method, sent.path)) =>
        sent.res = Response(404, "Not Found", <<>>)

\* C12: GET /file without a name segment is answered 400 "No file path
\* given", and GET /file/<name> is never answered so, whatever the name.
C12_NoPathIs400 ==
    (Handled /\ sent.method = "GET") =>
        /\ sent.path = <<Slash>> \o FileSeg =>
               sent.res = Response(400, "No file path given", <<>>)
        /\ \A n \in Names :
               sent.path = DownloadPath(n) =>
                   sent.res # Response(400, "No file path given", <<>>)

\* The 400 of an upload without its two form fields.
MissingFields == Response(400, "Missing name or content in request body", <<>>)

\* C13: an upload that lacks the field name or the field content goes no
\* further than the 400 "Missing name or content in request body", and the
\* step that answers it changes neither the mapping nor the disk; an upload
\* with both fields goes on to the store, also when its content is empty,
\* and its 201 leaves the empty string in the mapping.  What the handler
\* decides before the lock depends on the request alone: it is looked at
\* for every upload request at the step that opens the server.
C13_MissingFieldRejected ==
    [][/\ (mainpc = "count" /\ mainpc' = "serve") =>
            \A r \in UploadRequests :
                IF {"name", "content"} \subseteq DOMAIN r.params
                THEN Handle(r) = Reaches("upload_lock", <<>>)
                ELSE Handle(r) = Returns(MissingFields)
       /\ (Responds /\ sent'.res = MissingFields) =>
            (store' = store /\ disk' = disk /\ lastPut' = lastPut)
       /\ \A t \in Tasks :
            /\ (pc[t] = "idle" /\ pc'[t] = "upload_lock") =>
                    /\ {"name", "content"} \subseteq DOMAIN req'[t].params
                    /\ store' = store
                    /\ disk' = disk
            /\ (/\ pc[t] = "upload_insert"
                /\ pc'[t] = "idle"
                /\ req[t].params.content = <<>>) =>
                    /\ sent'.res = Response(201, "Stored file", req[t].params.name)
                    /\ store'[req[t].params.name].content = Some(<<>>)]_vars

\* An upload with an empty content has been stored, and the upload answered
\* last lacked a field.
C13_Witness ==
    /\ sent.res = MissingFields
    /\ \E n \in DOMAIN lastPut :
          /\ lastPut[n] = <<>>
          /\ n \in DOMAIN store
          /\ store[n].content = Some(<<>>)

\* Tasks t and u are both serving an upload of the same name with different
\* contents.
ConcurrentPuts(t, u) ==
    /\ t # u
    /\ pc[t] \in {"upload_lock", "upload_write", "upload_insert"}
    /\ pc[u] \in {"upload_lock", "upload_write", "upload_insert"}
    /\ req[t].params.name = req[u].params.name
    /\ req[t].params.content # req[u].params.content

\* C14: when an upload completes (its insert and 201), the file it wrote
\* and the mapping entry of its name both hold its content, whatever other
\* uploads of the name run at the same time: no other disk write has come
\* between its write and its insert, so after two concurrent uploads disk
\* and mapping hold the content of the one that wrote last.
C14_ConcurrentPutsAgree ==
    [][\A t \in Tasks :
        (pc[t] = "upload_insert" /\ pc'[t] = "idle") =>
            LET n == req[t].params.name
                c == req[t].params.content
                p == WritePath(disk', n)
            IN  /\ n \in DOMAIN store'
                /\ store'[n].content = Some(c)
                /\ p # None
                /\ p[1] \in DOMAIN disk'
                /\ disk'[p[1]].data = c
                /\ lastPut'[n] = c]_vars

\* One of two concurrent uploads of a name has written its file and is
\* about to insert, while the other waits for the lock.
C14_Witness ==
    \E t \in Tasks, u \in Tasks :
        /\ ConcurrentPuts(t, u)
        /\ pc[t] = "upload_insert"
        /\ pc[u] = "upload_lock"

C17_ReadsArePure ==
    [][(Responds /\ sent'.method = "GET") =>
        (store' = store /\ disk' = disk)]_vars

\* A download has been answered with the content of a stored record.
C17_Witness ==
    /\ sent.method = "GET"
    /\ \E k \in DOMAIN store :
          /\ store[k].content # None
          /\ store[k].content[1] # <<>>
          /\ sent.res = OkBody(store[k].content[1])

\* The entries of the storage directory on disk d.
StoreEntries(d) == {p \in DOMAIN d : Len(p) = 2 /\ p[1] = StoreSeg}

\* C18: the startup scan is never aborted by a directory entry, and when it
\* is over every regular file it could read is in the mapping, with its
\* content when the bytes are text and without when they are not, and no
\* subdirectory is.
C18_ScanBestEffort ==
    /\ mainpc # "panicked"
    /\ mainpc = "count" =>
          \A p \in StoreEntries(disk) :
              /\ (disk[p].kind = "file" /\ disk[p].readable /\ disk[p].statOk /\ disk[p].nameOk) =>
                    /\ p[2] \in DOMAIN store
                    /\ store[p[2]].content = IF disk[p].text THEN Some(disk[p].data) ELSE None
              /\ disk[p].kind = "dir" => p[2] \notin DOMAIN store

\* C19, as claimed: every record in the mapping has a content.
C19_ContentAlwaysPresent ==
    \A k \in DOMAIN store : store[k].content # None

\* C19, amended: a record in the mapping is without content only if the
\* startup scan loaded it from a file whose bytes are not text and no
\* upload has replaced it since; every record an upload inserts has a
\* content.
C19_ContentAbsentOnlyForNonText ==
    [][\A k \in DOMAIN store' :
        store'[k].content = None =>
            /\ k \in loaded'
            /\ k \notin DOMAIN lastPut'
            /\ k \notin DOMAIN store => ~disk[<<StoreSeg, k>>].text]_vars

\* The server is up with a record that has no content, loaded by the scan,
\* next to a record that an upload inserted.
C19_Witness ==
    /\ mainpc = "serve"
    /\ \E k \in loaded : store[k].content = None
    /\ \E j \in DOMAIN lastPut : j \in DOMAIN store /\ store[j].content # None

\* The places where a handler waits for the mutex.
Waiting == {"upload_lock", "download_lock", "all_lock"}

\* C20: the mutex is held only by the running scan or by an upload between
\* its lock() and its return, never by a task that has finished; init_store
\* comes to its end (the server loop, or the panic of C18); and every
\* handler that waits for the mutex gets it.
C20_LockLiveness ==
    /\ [](\A h \in lock :
            IF h = MainThread THEN mainpc = "scan"
            ELSE pc[h] \in {"upload_write", "upload_insert"})
    /\ [](mainpc = "count" => lock = {})
    /\ <>(mainpc \in {"serve", "panicked"})
    /\ \A t \in Tasks : (pc[t] \in Waiting) ~> (pc[t] \notin Waiting)

\* The write of an upload has just failed and its handler is over, the
\* mutex is free, and another handler is waiting for it.
C20_Witness ==
    /\ sent.res = IoError
    /\ lock = {}
    /\ \E u \in Tasks : pc[u] \in Waiting

\* Every regular file of the storage directory on disk d can be loaded by
\* the startup scan: it can be stat-ed and read, and its name and bytes are
\* text.
AllLoadable(d) ==
    \A p \in StoreEntries(d) :
        d[p].kind = "file" => (d[p].statOk /\ d[p].nameOk /\ d[p].readable /\ d[p].text)

\* What a download of name n is answered when the mapping is m and no
\* other request runs.
DownloadOf(m, n) ==
    LET h == Handle(Request("GET", DownloadPath(n), NoParams))
    IN  IF h.at = "idle" THEN h.res ELSE Lookup(m, h.key)

\* C15: when the startup scan has ended, at the first start or after a
\* restart, over a storage directory whose files can all be loaded, every
\* name that an upload was answered 201 for is downloaded with the content
\* of its latest such upload, and the keys of the mapping are the regular
\* files of the storage directory.
C15_RestartDurable ==
    (mainpc = "count" /\ AllLoadable(disk)) =>
        /\ \A n \in DOMAIN lastPut : DownloadOf(store, n) = OkBody(lastPut[n])
        /\ DOMAIN store = {p[2] : p \in {q \in StoreEntries(disk) : disk[q].kind = "file"}}

====
